---- MODULE Spec2Model ----
(***************************************************************************)
(* Orphan reconciliation and collection-consistent deletion of the Chroma  *)
(* auditor: ChromaCollectionManager of bonus/cleanup_chroma.py and         *)
(* delete_entries of chroma-auditor.py, over one persist directory that    *)
(* holds the sqlite index (tables collections and segments) and the        *)
(* segment directories.                                                    *)
(***************************************************************************)
EXTENDS Integers, Sequences, FiniteSets, TLC

\* ---------------------------------------------------------------- bounds
MaxSegs == 2        \* size of the pool of VECTOR segment ids (uuid4 values)
MaxEntries == 2     \* entry ids a collection can hold

\* ------------------------------------------------------------- constants
UuidMinLen == 32    \* len(item) >= 32 in _get_all_uuid_directories

\* Names are strings; Text gives the characters of each string the model uses,
\* for the operations of the code that look inside a name.
Rep(c, n) == [i \in 1..n |-> c]

RECURSIVE RepStr(_, _)
RepStr(c, n) == IF n = 0 THEN "" ELSE c \o RepStr(c, n - 1)

Hex == <<"a", "b", "c", "d", "e", "f">>

\* a uuid4 rendered as 8-4-4-4-12: 36 characters, four hyphens
UuidStr(c, d) == RepStr(c, 8) \o "-" \o RepStr(d, 4) \o "-" \o RepStr(d, 4)
                 \o "-" \o RepStr(d, 4) \o "-" \o RepStr(d, 12)
UuidText(c, d) == Rep(c, 8) \o <<"-">> \o Rep(d, 4) \o <<"-">> \o Rep(d, 4)
                  \o <<"-">> \o Rep(d, 4) \o <<"-">> \o Rep(d, 12)

VecIdTable == [i \in 1..MaxSegs |-> UuidStr(Hex[i], "1")]
MetaIdTable == [i \in 1..MaxSegs |-> UuidStr(Hex[i], "2")]
VecId(i) == VecIdTable[i]
MetaId(i) == MetaIdTable[i]

SegIds == {VecId(i) : i \in 1..MaxSegs}

DOCS == "docs"
LOGS == "logs"
Names == {DOCS, LOGS}
NameOrder == <<DOCS, LOGS>>

DefaultDb == "default_database"
ForeignDb == "other_database"
Dbs == {DefaultDb, ForeignDb}
\* names of the collections other clients keep in ForeignDb
ForeignNames == {DOCS}
\* the collections the auditor opens and the upload pipeline fills
AuditedNames == {DOCS}

ShortName == "tmp-1"
IndexFile == "chroma.sqlite3"
\* a directory whose name is long enough and has no hyphen (a uuid4 hex)
LongName == RepStr("0", 32)
\* a plain file whose name has the shape of a uuid4
UuidFile == UuidStr("9", "9")
Unknown == "Unknown"
None == ""
ReprPrefix == "Collection(name="
ReprPrefixText == <<"C", "o", "l", "l", "e", "c", "t", "i", "o", "n", "(", "n", "a", "m", "e", "=">>

\* str(col) of an element of client.list_collections(): the client returns
\* either the name itself or a Collection object printed Collection(name=..)
ReprStyles == {"name", "object"}
StrOf(name, style) ==
    IF style = "object" THEN ReprPrefix \o name \o ")" ELSE name

PlainText ==
    (DOCS :> <<"d", "o", "c", "s">>) @@ (LOGS :> <<"l", "o", "g", "s">>)
    @@ (ShortName :> <<"t", "m", "p", "-", "1">>)
    @@ (IndexFile :> <<"c", "h", "r", "o", "m", "a", ".", "s", "q", "l", "i", "t", "e", "3">>)
    @@ (Unknown :> <<"U", "n", "k", "n", "o", "w", "n">>)
    @@ (None :> <<>>)
    @@ (LongName :> Rep("0", 32))
    @@ (UuidFile :> UuidText("9", "9"))

Text ==
    PlainText
    @@ [s \in {StrOf(n, "object") : n \in Names} |->
          ReprPrefixText \o PlainText[CHOOSE n \in Names : StrOf(n, "object") = s]
          \o <<")">>]
    @@ [s \in SegIds |-> UuidText(Hex[CHOOSE i \in 1..MaxSegs : VecId(i) = s], "1")]

FromText(chars) == CHOOSE s \in DOMAIN Text : Text[s] = chars

RootOrder == [i \in 1..MaxSegs |-> VecId(i)] \o <<ShortName, IndexFile, LongName, UuidFile>>

EntryIds == 1..MaxEntries

\* ------------------------------------------------------- string helpers
Range(s) == {s[i] : i \in 1..Len(s)}

RECURSIVE Filter(_, _)
Filter(s, keep) ==
    IF s = <<>> THEN <<>>
    ELSE (IF Head(s) \in keep THEN <<Head(s)>> ELSE <<>>) \o Filter(Tail(s), keep)

StartsAt(s, i, pat) ==
    /\ i + Len(pat) - 1 <= Len(s)
    /\ SubSeq(s, i, i + Len(pat) - 1) = pat

\* str.replace(pat, ''): every non-overlapping occurrence, left to right
RECURSIVE ReplaceFrom(_, _, _)
ReplaceFrom(s, i, pat) ==
    IF i > Len(s) THEN <<>>
    ELSE IF StartsAt(s, i, pat) THEN ReplaceFrom(s, i + Len(pat), pat)
    ELSE <<s[i]>> \o ReplaceFrom(s, i + 1, pat)

\* str.rstrip(c): every trailing occurrence of c
RECURSIVE RStrip(_, _)
RStrip(s, c) ==
    IF s # <<>> /\ s[Len(s)] = c THEN RStrip(SubSeq(s, 1, Len(s) - 1), c) ELSE s

\* str(x).replace('Collection(name=', '').rstrip(')')
StripRepr(s) == FromText(RStrip(ReplaceFrom(Text[s], 1, ReprPrefixText), ")"))

\* the strings the operations clean are the renderings of collection names
Renderings == {StrOf(n, st) : n \in Names, st \in ReprStyles}
CleanTable == [s \in Renderings |-> StripRepr(s)]
CleanName(s) == CleanTable[s]

\* list.remove(x): drops the first occurrence
RECURSIVE RemoveFirst(_, _)
RemoveFirst(s, x) ==
    IF s = <<>> THEN <<>>
    ELSE IF Head(s) = x THEN Tail(s)
    ELSE <<Head(s)>> \o RemoveFirst(Tail(s), x)

\* dict.get(k, default)
Get(m, k, default) == IF k \in DOMAIN m THEN m[k] ELSE default


\* ------------------------------------------------------------ the state
VARIABLES
    colls,     \* rows of table collections: <<database, name>>
    segs,      \* rows of table segments: [id, collection, scope]
    dirs,      \* names of the directories directly under persist_directory
    files,     \* names of the plain files directly under persist_directory
    entries,   \* entries[name]: ids held by the default-database collection name
    df,        \* 'ID' column of the dataframe the auditor displays
    dfName,    \* current_collection_state: the collection df was loaded from
    stranded,  \* VECTOR ids whose metadata this program deleted, directory left
    shown,     \* orphans menu choice 1 last printed for the operator
    ret        \* what the last operation returned and logged

vars == <<colls, segs, dirs, files, entries, df, dfName, stranded, shown, ret>>

NoRet == [op |-> "none", name |-> None, ok |-> FALSE, uuid |-> None,
          idxOk |-> TRUE, metaDeleted |-> FALSE, rmRaised |-> FALSE,
          raised |-> FALSE, info |-> <<>>, orphans |-> <<>>,
          deleted |-> <<>>, count |-> 0, failed |-> {}, healed |-> {},
          status |-> "", reset |-> FALSE, threw |-> FALSE, selected |-> <<>>,
          asked |-> <<>>, batch |-> <<>>, results |-> <<>>, steps |-> <<>>,
          connOpen |-> FALSE, noSelection |-> FALSE, mapping |-> <<>>]

\* --------------------------------------------------- the store's client
\* client.list_collections() of PersistentClient(path): default database only
StoreNames(cs) == {c[2] : c \in {x \in cs : x[1] = DefaultDb}}

\* ids of the VECTOR segments the index records for collection c
VectorIdsOf(c, sg) == {s.id : s \in {t \in sg : t.collection = c /\ t.scope = "VECTOR"}}

LiveVectorIds(sg) == {s.id : s \in {t \in sg : t.scope = "VECTOR"}}

\* client.create_collection(name) in database db: one VECTOR and one
\* METADATA segment, ids fresh uuid4 values
StoreCreate(db, name, i, cs, sg) ==
    [colls |-> cs \cup {<<db, name>>},
     segs |-> sg \cup {[id |-> VecId(i), collection |-> <<db, name>>, scope |-> "VECTOR"],
                       [id |-> MetaId(i), collection |-> <<db, name>>, scope |-> "METADATA"]}]

\* client.delete_collection(name): the collection row and its segment rows
StoreDelete(name, cs, sg) ==
    [colls |-> cs \ {<<DefaultDb, name>>},
     segs |-> {s \in sg : s.collection # <<DefaultDb, name>>}]

\* uuid4 values are fresh: of the pool, the first id that neither the index
\* nor the root holds
FreshIds(sg, ds) ==
    LET free == {i \in 1..MaxSegs : VecId(i) \notin ds /\ \A s \in sg : s.id # VecId(i)}
    IN  {i \in free : \A j \in free : i <= j}

\* ------------------------------------------- cleanup_chroma.py, helpers
\* SELECT c.name, s.id FROM segments s JOIN collections c ON s.collection = c.id
\* WHERE s.scope = 'VECTOR'
VectorRows(cs, sg) ==
    {<<s.collection[2], s.id>> : s \in {t \in sg : t.scope = "VECTOR" /\ t.collection \in cs}}

\* {name: uuid for name, uuid in cursor.fetchall()}: the last row of a name
\* wins, and the query fixes no row order
DictsOf(rows) ==
    LET names == {r[1] : r \in rows}
    IN  {m \in [names -> {r[2] : r \in rows}] : \A n \in names : <<n, m[n]>> \in rows}

\* mutant: a failed read of the index still yields the rows
UuidMappingsIgnoreFailure(cs, sg, idxOk) == DictsOf(VectorRows(cs, sg))

\* _get_collection_uuid_mapping: {} when sqlite raises
UuidMappings(cs, sg, idxOk) == IF idxOk THEN DictsOf(VectorRows(cs, sg)) ELSE {<<>>}

\* the connection to the index when the call returns: conn.close() follows the
\* query inside the try block, so it runs only when nothing raised; when
\* connect raised there is no connection, and when the query raised the
\* connection is open until the runtime finalises the dropped object
ConnLeftOpen(idxOk) == IF idxOk THEN {FALSE} ELSE BOOLEAN

\* mutant: only names of exactly 32 characters pass
IsUuidLikeExact(item) == Len(Text[item]) = UuidMinLen /\ "-" \in Range(Text[item])

IsUuidLike(item) == Len(Text[item]) >= UuidMinLen /\ "-" \in Range(Text[item])

\* mutant: os.path.isdir is not asked
GetAllUuidDirectoriesNoIsdir(ds, fl) ==
    Filter(Filter(RootOrder, ds \cup fl), {item \in ds \cup fl : IsUuidLike(item)})

\* _get_all_uuid_directories
GetAllUuidDirectories(ds, fl) ==
    Filter(Filter(RootOrder, ds \cup fl), {item \in ds : IsUuidLike(item)})

\* list_collections
ListCollections(cs, style) ==
    LET present == Filter(NameOrder, StoreNames(cs))
    IN  [i \in 1..Len(present) |-> StrOf(present[i], style)]

\* the loop of list_collections_with_uuids
RECURSIVE CollectInfo(_, _, _)
CollectInfo(collections, uuid_mapping, all_uuid_dirs) ==
    IF collections = <<>> THEN [info |-> <<>>, orphans |-> all_uuid_dirs]
    ELSE LET clean_name == CleanName(Head(collections))
             uuid == Get(uuid_mapping, clean_name, Unknown)
             rest == CollectInfo(Tail(collections), uuid_mapping,
                                 RemoveFirst(all_uuid_dirs, uuid))
         IN  [info |-> <<[name |-> clean_name, uuid |-> uuid]>> \o rest.info,
              orphans |-> rest.orphans]

\* list_collections_with_uuids
ListCollectionsWithUuids(cs, style, uuid_mapping, ds, fl) ==
    CollectInfo(ListCollections(cs, style), uuid_mapping, GetAllUuidDirectories(ds, fl))

\* mutant: the first rmtree that raises ends the loop
RECURSIVE RmtreeLoopAbort(_, _, _)
RmtreeLoopAbort(orphaned_uuids, rmFail, ds) ==
    IF orphaned_uuids = <<>> THEN [dirs |-> ds, deleted |-> <<>>, failed |-> {}]
    ELSE LET uuid_dir == Head(orphaned_uuids)
             raises == uuid_dir \in rmFail \/ uuid_dir \notin ds
             rest == RmtreeLoopAbort(Tail(orphaned_uuids), rmFail, ds \ {uuid_dir})
         IN  IF raises THEN [dirs |-> ds, deleted |-> <<>>, failed |-> {uuid_dir}]
             ELSE [dirs |-> rest.dirs, deleted |-> <<uuid_dir>> \o rest.deleted,
                   failed |-> rest.failed]

\* mutant: a directory is appended to deleted before its rmtree is tried
RECURSIVE RmtreeLoopAppendsFirst(_, _, _)
RmtreeLoopAppendsFirst(orphaned_uuids, rmFail, ds) ==
    IF orphaned_uuids = <<>> THEN [dirs |-> ds, deleted |-> <<>>, failed |-> {}]
    ELSE LET uuid_dir == Head(orphaned_uuids)
             raises == uuid_dir \in rmFail \/ uuid_dir \notin ds
             rest == RmtreeLoopAppendsFirst(Tail(orphaned_uuids), rmFail,
                                            IF raises THEN ds ELSE ds \ {uuid_dir})
         IN  [dirs |-> rest.dirs,
              deleted |-> <<uuid_dir>> \o rest.deleted,
              failed |-> (IF raises THEN {uuid_dir} ELSE {}) \cup rest.failed]

\* the loop of delete_orphaned_uuid_dirs: rmtree of each orphan in turn,
\* rmFail the names whose rmtree raises
RECURSIVE RmtreeLoop(_, _, _)
RmtreeLoop(orphaned_uuids, rmFail, ds) ==
    IF orphaned_uuids = <<>> THEN [dirs |-> ds, deleted |-> <<>>, failed |-> {}]
    ELSE LET uuid_dir == Head(orphaned_uuids)
             raises == uuid_dir \in rmFail \/ uuid_dir \notin ds
             rest == RmtreeLoop(Tail(orphaned_uuids), rmFail,
                                IF raises THEN ds ELSE ds \ {uuid_dir})
         IN  [dirs |-> rest.dirs,
              deleted |-> (IF raises THEN <<>> ELSE <<uuid_dir>>) \o rest.deleted,
              failed |-> (IF raises THEN {uuid_dir} ELSE {}) \cup rest.failed]

\* mutant: the metadata is deleted and the directory is never removed
DeleteCollectionMetadataOnly(collection_name, uuid_mapping, apiFail, rmFail, cs, sg, ds, fl) ==
    LET name == CleanName(collection_name)
        after == StoreDelete(name, cs, sg)
        done == name \in StoreNames(cs) /\ ~apiFail
    IN  [colls |-> IF done THEN after.colls ELSE cs,
         segs |-> IF done THEN after.segs ELSE sg,
         dirs |-> ds, name |-> name, uuid |-> Get(uuid_mapping, name, None),
         ok |-> done, metaDeleted |-> done, rmRaised |-> FALSE,
         steps |-> <<"index_read", "metadata_delete">>]

\* mutant: an rmtree that raises is swallowed and the call returns True
DeleteCollectionSwallowsRmtree(collection_name, uuid_mapping, apiFail, rmFail, cs, sg, ds, fl) ==
    LET name == CleanName(collection_name)
        uuid_dir == Get(uuid_mapping, name, None)
        after == StoreDelete(name, cs, sg)
        done == name \in StoreNames(cs) /\ ~apiFail
        exists == uuid_dir # None /\ uuid_dir \in ds \cup fl
        raises == exists /\ (rmFail \/ uuid_dir \notin ds)
    IN  [colls |-> IF done THEN after.colls ELSE cs,
         segs |-> IF done THEN after.segs ELSE sg,
         dirs |-> IF done /\ exists /\ ~raises THEN ds \ {uuid_dir} ELSE ds,
         name |-> name, uuid |-> uuid_dir,
         ok |-> done, metaDeleted |-> done, rmRaised |-> done /\ raises,
         steps |-> <<"index_read", "metadata_delete">>
                   \o (IF done /\ exists THEN <<"rmtree">> ELSE <<>>)]

\* mutant: the directory is removed before the store is asked to delete
DeleteCollectionDirFirst(collection_name, uuid_mapping, apiFail, rmFail, cs, sg, ds, fl) ==
    LET name == CleanName(collection_name)
        uuid_dir == Get(uuid_mapping, name, None)
        after == StoreDelete(name, cs, sg)
        exists == uuid_dir # None /\ uuid_dir \in ds \cup fl
        raises == exists /\ (rmFail \/ uuid_dir \notin ds)
        done == ~raises /\ name \in StoreNames(cs) /\ ~apiFail
    IN  [colls |-> IF done THEN after.colls ELSE cs,
         segs |-> IF done THEN after.segs ELSE sg,
         dirs |-> IF exists /\ ~raises THEN ds \ {uuid_dir} ELSE ds,
         name |-> name, uuid |-> uuid_dir,
         ok |-> done, metaDeleted |-> done, rmRaised |-> raises,
         steps |-> <<"index_read">> \o (IF exists THEN <<"rmtree">> ELSE <<>>)
                   \o (IF raises THEN <<>> ELSE <<"metadata_delete">>)]

\* mutant: the index is read for the uuid after the store deleted the collection
DeleteCollectionLookupAfter(collection_name, uuid_mapping, apiFail, rmFail, cs, sg, ds, fl) ==
    LET name == CleanName(collection_name)
        after == StoreDelete(name, cs, sg)
        done == name \in StoreNames(cs) /\ ~apiFail
        late == CHOOSE m \in UuidMappings(after.colls, after.segs, uuid_mapping # <<>>) : TRUE
        uuid_dir == IF done THEN Get(late, name, None) ELSE None
        exists == uuid_dir # None /\ uuid_dir \in ds \cup fl
        raises == exists /\ (rmFail \/ uuid_dir \notin ds)
    IN  [colls |-> IF done THEN after.colls ELSE cs,
         segs |-> IF done THEN after.segs ELSE sg,
         dirs |-> IF done /\ exists /\ ~raises THEN ds \ {uuid_dir} ELSE ds,
         name |-> name, uuid |-> uuid_dir,
         ok |-> done /\ ~raises, metaDeleted |-> done, rmRaised |-> done /\ raises,
         steps |-> <<"metadata_delete">>
                   \o (IF done THEN <<"index_read">> ELSE <<>>)
                   \o (IF done /\ exists THEN <<"rmtree">> ELSE <<>>)]

\* mutant: an rmtree that raises puts the collection back
DeleteCollectionRollsBack(collection_name, uuid_mapping, apiFail, rmFail, cs, sg, ds, fl) ==
    LET name == CleanName(collection_name)
        uuid_dir == Get(uuid_mapping, name, None)
        after == StoreDelete(name, cs, sg)
        done == name \in StoreNames(cs) /\ ~apiFail
        exists == uuid_dir # None /\ uuid_dir \in ds \cup fl
        raises == exists /\ (rmFail \/ uuid_dir \notin ds)
    IN  [colls |-> IF done /\ ~raises THEN after.colls ELSE cs,
         segs |-> IF done /\ ~raises THEN after.segs ELSE sg,
         dirs |-> IF done /\ exists /\ ~raises THEN ds \ {uuid_dir} ELSE ds,
         name |-> name, uuid |-> uuid_dir,
         ok |-> done /\ ~raises, metaDeleted |-> done, rmRaised |-> done /\ raises,
         steps |-> <<"index_read", "metadata_delete">>
                   \o (IF done /\ exists THEN <<"rmtree">> ELSE <<>>)]

\* mutant: rmtree is called whenever a uuid was found, existing path or not
DeleteCollectionRmtreeAlways(collection_name, uuid_mapping, apiFail, rmFail, cs, sg, ds, fl) ==
    LET name == CleanName(collection_name)
        uuid_dir == Get(uuid_mapping, name, None)
        after == StoreDelete(name, cs, sg)
        done == name \in StoreNames(cs) /\ ~apiFail
        tried == uuid_dir # None
        raises == tried /\ (rmFail \/ uuid_dir \notin ds)
    IN  [colls |-> IF done THEN after.colls ELSE cs,
         segs |-> IF done THEN after.segs ELSE sg,
         dirs |-> IF done /\ tried /\ ~raises THEN ds \ {uuid_dir} ELSE ds,
         name |-> name, uuid |-> uuid_dir,
         ok |-> done /\ ~raises, metaDeleted |-> done, rmRaised |-> done /\ raises,
         steps |-> <<"index_read", "metadata_delete">>
                   \o (IF done /\ tried THEN <<"rmtree">> ELSE <<>>)]

\* delete_collection: what it returns and leaves behind
DeleteCollectionResult(collection_name, uuid_mapping, apiFail, rmFail, cs, sg, ds, fl) ==
    LET name == CleanName(collection_name)
        uuid_dir == Get(uuid_mapping, name, None)
        after == StoreDelete(name, cs, sg)
        base == [colls |-> cs, segs |-> sg, dirs |-> ds, name |-> name,
                 uuid |-> uuid_dir, ok |-> FALSE, metaDeleted |-> FALSE,
                 rmRaised |-> FALSE, steps |-> <<"index_read", "metadata_delete">>]
    IN  IF name \notin StoreNames(cs) \/ apiFail THEN base
        ELSE IF uuid_dir # None /\ uuid_dir \in ds \cup fl
        THEN IF rmFail \/ uuid_dir \notin ds
             THEN [base EXCEPT !.colls = after.colls, !.segs = after.segs,
                               !.metaDeleted = TRUE, !.rmRaised = TRUE,
                               !.steps = @ \o <<"rmtree">>]
             ELSE [base EXCEPT !.colls = after.colls, !.segs = after.segs,
                               !.dirs = ds \ {uuid_dir},
                               !.metaDeleted = TRUE, !.ok = TRUE,
                               !.steps = @ \o <<"rmtree">>]
        ELSE [base EXCEPT !.colls = after.colls, !.segs = after.segs,
                          !.metaDeleted = TRUE, !.ok = TRUE]

\* what can raise inside one call: the sqlite read of the index, the store's
\* API call, shutil.rmtree
Faults == {"none", "index", "api", "rmtree"}

\* mutant: the first collection whose deletion fails ends the batch
RECURSIVE DeleteCollectionsAbort(_, _, _, _, _, _)
DeleteCollectionsAbort(collection_names, faults, cs, sg, ds, fl) ==
    IF collection_names = <<>>
    THEN {[colls |-> cs, segs |-> sg, dirs |-> ds, results |-> <<>>, batch |-> <<>>]}
    ELSE LET clean_name == CleanName(Head(collection_names))
             fault == Head(faults)
         IN  UNION {
               {[colls |-> rest.colls, segs |-> rest.segs, dirs |-> rest.dirs,
                 results |-> rest.results @@ (clean_name :> r.ok),
                 batch |-> <<[name |-> clean_name, fault |-> fault, ok |-> r.ok,
                              metaDeleted |-> r.metaDeleted]>> \o rest.batch] :
                  rest \in DeleteCollectionsAbort(IF r.ok THEN Tail(collection_names) ELSE <<>>,
                                                  Tail(faults), r.colls, r.segs, r.dirs, fl)} :
               r \in {DeleteCollectionResult(clean_name, m, fault = "api", fault = "rmtree",
                                             cs, sg, ds, fl) :
                        m \in UuidMappings(cs, sg, fault # "index")}}

\* delete_collections: delete_collection of each name in turn, faults[k] what
\* raises inside the k-th call; results is the dict it returns
RECURSIVE DeleteCollectionsOutcomes(_, _, _, _, _, _)
DeleteCollectionsOutcomes(collection_names, faults, cs, sg, ds, fl) ==
    IF collection_names = <<>>
    THEN {[colls |-> cs, segs |-> sg, dirs |-> ds, results |-> <<>>, batch |-> <<>>]}
    ELSE LET clean_name == CleanName(Head(collection_names))
             fault == Head(faults)
         IN  UNION {
               {[colls |-> rest.colls, segs |-> rest.segs, dirs |-> rest.dirs,
                 results |-> rest.results @@ (clean_name :> r.ok),
                 batch |-> <<[name |-> clean_name, fault |-> fault, ok |-> r.ok,
                              metaDeleted |-> r.metaDeleted]>> \o rest.batch] :
                  rest \in DeleteCollectionsOutcomes(Tail(collection_names), Tail(faults),
                                                     r.colls, r.segs, r.dirs, fl)} :
               r \in {DeleteCollectionResult(clean_name, m, fault = "api", fault = "rmtree",
                                             cs, sg, ds, fl) :
                        m \in UuidMappings(cs, sg, fault # "index")}}

\* mutant: the orphans an earlier listing printed are removed, when there are some
DeleteOrphanedStale(listed, rmFail, ds) ==
    LET orphaned_uuids == IF shown # <<>> THEN shown ELSE listed.orphans
        loop == RmtreeLoop(orphaned_uuids, rmFail, ds)
    IN  [dirs |-> loop.dirs, orphans |-> orphaned_uuids, deleted |-> loop.deleted,
         count |-> Len(loop.deleted), failed |-> loop.failed]

\* mutant: every candidate directory is removed, listed or not
DeleteOrphanedAllCandidates(listed, rmFail, ds) ==
    LET orphaned_uuids == Filter(RootOrder, {item \in ds : IsUuidLike(item)})
        loop == RmtreeLoop(orphaned_uuids, rmFail, ds)
    IN  [dirs |-> loop.dirs, orphans |-> orphaned_uuids, deleted |-> loop.deleted,
         count |-> Len(loop.deleted), failed |-> loop.failed]

\* delete_orphaned_uuid_dirs: what it returns and leaves behind
DeleteOrphanedResult(listed, rmFail, ds) ==
    LET orphaned_uuids == listed.orphans
        loop == RmtreeLoop(orphaned_uuids, rmFail, ds)
    IN  [dirs |-> loop.dirs, orphans |-> orphaned_uuids, deleted |-> loop.deleted,
         count |-> Len(loop.deleted), failed |-> loop.failed]

\* ------------------------------------------------ chroma-auditor.py
StatusNone == "No entries selected"
StatusReset == "Collection has been completely reset (deleted and recreated)"
StatusStandard == "Deleted documents using standard method"
StatusDeleted == "Deleted n documents"
StatusError == "Error"

\* what can raise inside the reset sequence of delete_entries
ResetFaults == {"none", "index", "api", "rmtree", "create"}

\* the ids of a set of entries, in the order a load displays them
RECURSIVE SortedIds(_)
SortedIds(S) ==
    IF S = {} THEN <<>>
    ELSE LET m == CHOOSE x \in S : \A y \in S : x <= y
         IN  <<m>> \o SortedIds(S \ {m})

\* load_collection: the 'ID' column; an empty frame for an unknown collection
LoadCollectionIds(collection_name, cs, en) ==
    IF collection_name \in StoreNames(cs) THEN SortedIds(en[collection_name]) ELSE <<>>

\* [df.iloc[idx]['ID'] for idx in selected_indices if idx < len(df)]
SelectedIds(selected_indices, dframe) ==
    LET kept == SortedIds({idx \in selected_indices : idx < Len(dframe)})
    IN  [k \in 1..Len(kept) |-> dframe[kept[k] + 1]]

\* SELECT s.id ... WHERE c.name = ? AND s.scope = 'VECTOR'; fetchone()
FetchOne(collection_name, cs, sg) ==
    LET rows == {r \in VectorRows(cs, sg) : r[1] = collection_name}
    IN  IF rows = {} THEN {None} ELSE {r[2] : r \in rows}

\* mutant: an empty selection is not noticed
NoSelectionNever(selected_indices) == FALSE

\* `not selected_indices`
NoSelection(selected_indices) == selected_indices = {}

\* mutant: the per-entry delete empties the collection
StandardDeleteWipes(collection_name, selected_ids, en) ==
    [en EXCEPT ![collection_name] = {}]

\* collection.delete(ids=selected_ids)
StandardDelete(collection_name, selected_ids, en) ==
    [en EXCEPT ![collection_name] = @ \ Range(selected_ids)]

\* delete_entries: the status it returns and the store and root it leaves
DeleteEntriesResult(collection_name, selected_indices, dframe, fault, uuid_dir, i, cs, sg, ds, fl, en) ==
    LET base == [colls |-> cs, segs |-> sg, dirs |-> ds, entries |-> en,
                 status |-> StatusError, reset |-> FALSE, threw |-> FALSE,
                 metaDeleted |-> FALSE, selected |-> <<>>, reload |-> FALSE,
                 uuid |-> None, steps |-> <<>>]
        selected_ids == SelectedIds(selected_indices, dframe)
        total_count == Cardinality(en[collection_name])
        standard == StandardDelete(collection_name, selected_ids, en)
        gone == StoreDelete(collection_name, cs, sg)
        wiped == [en EXCEPT ![collection_name] = {}]
        rmtree == uuid_dir # None /\ uuid_dir \in ds \cup fl
        ds2 == IF rmtree THEN ds \ {uuid_dir} ELSE ds
        made == StoreCreate(DefaultDb, collection_name, i, gone.colls, gone.segs)
        inReset == [base EXCEPT !.reset = TRUE, !.selected = selected_ids,
                                !.uuid = IF fault = "index" THEN None ELSE uuid_dir]
        tillRmtree == <<"index_read", "metadata_delete">>
                      \o (IF rmtree THEN <<"rmtree">> ELSE <<>>)
    IN  IF NoSelection(selected_indices) THEN [base EXCEPT !.status = StatusNone]
        ELSE IF collection_name \notin StoreNames(cs) THEN base
        ELSE IF Len(selected_ids) >= total_count
        THEN IF fault \in {"index", "api"}
             THEN \* nothing deleted yet: the fallback deletes the selected ids
                  [inReset EXCEPT !.threw = TRUE, !.entries = standard,
                                  !.status = StatusStandard, !.reload = TRUE,
                                  !.steps = IF fault = "index"
                                            THEN <<"index_read", "entries_delete">>
                                            ELSE <<"index_read", "metadata_delete",
                                                   "entries_delete">>]
             ELSE IF fault = "rmtree" /\ rmtree
             THEN \* the fallback runs on the handle of the deleted collection
                  [inReset EXCEPT !.threw = TRUE, !.colls = gone.colls,
                                  !.segs = gone.segs, !.entries = wiped,
                                  !.metaDeleted = TRUE,
                                  !.steps = tillRmtree \o <<"entries_delete">>]
             ELSE IF fault = "create"
             THEN [inReset EXCEPT !.threw = TRUE, !.colls = gone.colls,
                                  !.segs = gone.segs, !.entries = wiped,
                                  !.dirs = ds2, !.metaDeleted = TRUE,
                                  !.steps = tillRmtree \o <<"create", "entries_delete">>]
             ELSE [inReset EXCEPT !.colls = made.colls, !.segs = made.segs,
                                  !.entries = wiped, !.dirs = ds2,
                                  !.metaDeleted = TRUE,
                                  !.status = StatusReset, !.reload = TRUE,
                                  !.steps = tillRmtree \o <<"create">>]
        ELSE [base EXCEPT !.selected = selected_ids, !.entries = standard,
                          !.status = StatusDeleted, !.reload = TRUE,
                          !.steps = <<"entries_delete">>]

\* ------------------------------------------------------------- initially
Init ==
    /\ colls = {}
    /\ segs = {}
    /\ dirs = {ShortName, LongName}
    /\ files = {IndexFile, UuidFile}
    /\ entries = [n \in Names |-> {}]
    /\ df = <<>>
    /\ dfName = None
    /\ stranded = {}
    /\ shown = <<>>
    /\ ret = NoRet

\* the lists of names menu choice 4 can hand to delete_collections
Batches == {<<a, b>> : a \in Names, b \in Names}

\* what raises during a batch of n calls: nothing, or one thing in one call
BatchFaults(n) ==
    {f \in [1..n -> Faults] : \A j, k \in 1..n : (f[j] # "none" /\ f[k] # "none") => j = k}

\* ----------------------------------- operations of ChromaCollectionManager
\* mutant: the listing removes the orphans it reports
ListWithUuidsSweeps ==
    \E idxOk \in BOOLEAN, style \in ReprStyles :
      \E m \in UuidMappings(colls, segs, idxOk) :
        \E r \in {ListCollectionsWithUuids(colls, style, m, dirs, files)} :
            /\ ret' = [NoRet EXCEPT !.op = "list_collections_with_uuids",
                                    !.idxOk = idxOk, !.ok = TRUE,
                                    !.info = r.info, !.orphans = r.orphans]
            /\ dirs' = dirs \ Range(r.orphans)
            /\ UNCHANGED <<colls, segs, files, entries, df, dfName, stranded, shown>>

\* list_collections_with_uuids, called on the manager
ListWithUuids ==
    \E idxOk \in BOOLEAN, style \in ReprStyles :
      \E m \in UuidMappings(colls, segs, idxOk), leak \in ConnLeftOpen(idxOk) :
        \E r \in {ListCollectionsWithUuids(colls, style, m, dirs, files)} :
            /\ ret' = [NoRet EXCEPT !.op = "list_collections_with_uuids",
                                    !.idxOk = idxOk, !.ok = TRUE, !.connOpen = leak,
                                    !.info = r.info, !.orphans = r.orphans]
            /\ UNCHANGED <<colls, segs, dirs, files, entries, df, dfName, stranded, shown>>

\* menu choice 1: the listing, and its orphans printed for the operator
MenuList ==
    \E idxOk \in BOOLEAN, style \in ReprStyles :
      \E m \in UuidMappings(colls, segs, idxOk), leak \in ConnLeftOpen(idxOk) :
        \E r \in {ListCollectionsWithUuids(colls, style, m, dirs, files)} :
            /\ ret' = [NoRet EXCEPT !.op = "list_collections_with_uuids",
                                    !.idxOk = idxOk, !.ok = TRUE, !.connOpen = leak,
                                    !.info = r.info, !.orphans = r.orphans]
            /\ shown' = r.orphans
            /\ UNCHANGED <<colls, segs, dirs, files, entries, df, dfName, stranded>>

\* menu choice 5
CreateCollection ==
    \E name \in Names :
      IF name \in StoreNames(colls)
      THEN /\ ret' = [NoRet EXCEPT !.op = "create_collection", !.name = name]
           /\ UNCHANGED <<colls, segs, dirs, files, entries, df, dfName, stranded, shown>>
      ELSE \E i \in FreshIds(segs, dirs) :
             LET st == StoreCreate(DefaultDb, name, i, colls, segs)
             IN  /\ colls' = st.colls
                 /\ segs' = st.segs
                 /\ ret' = [NoRet EXCEPT !.op = "create_collection", !.name = name,
                                         !.ok = TRUE]
                 /\ UNCHANGED <<dirs, files, entries, df, dfName, stranded, shown>>

\* menu choice 3
DeleteCollection ==
    \E name \in Names, style \in ReprStyles :
     \E fault \in (IF name \in StoreNames(colls) THEN Faults ELSE {"none"}) :
      \E m \in UuidMappings(colls, segs, fault # "index") :
        \E idxOk \in {fault # "index"}, leak \in ConnLeftOpen(fault # "index"),
            r \in {DeleteCollectionResult(StrOf(name, style), m, fault = "api",
                                        fault = "rmtree", colls, segs, dirs, files)} :
            /\ colls' = r.colls
            /\ segs' = r.segs
            /\ dirs' = r.dirs
            /\ entries' = IF r.metaDeleted THEN [entries EXCEPT ![r.name] = {}]
                          ELSE entries
            /\ stranded' = IF r.metaDeleted
                           THEN (stranded \cup VectorIdsOf(<<DefaultDb, r.name>>, segs))
                                \cap r.dirs
                           ELSE stranded
            /\ ret' = [NoRet EXCEPT !.op = "delete_collection", !.name = r.name,
                                    !.idxOk = idxOk, !.uuid = r.uuid, !.ok = r.ok,
                                    !.metaDeleted = r.metaDeleted,
                                    !.rmRaised = r.rmRaised, !.steps = r.steps,
                                    !.connOpen = leak,
                                    !.deleted = Filter(<<r.uuid>>, dirs \ r.dirs)]
            /\ UNCHANGED <<files, df, dfName, shown>>

\* menu choice 4: main hands over the cleaned names
DeleteCollections ==
    \E names \in Batches :
     \E faults \in BatchFaults(Len(names)) :
      \E r \in DeleteCollectionsOutcomes(names, faults, colls, segs, dirs, files) :
       \E gone \in {{r.batch[k].name : k \in {j \in 1..Len(r.batch) : r.batch[j].metaDeleted}}},
          leak \in ConnLeftOpen(\A k \in 1..Len(names) : faults[k] # "index") :
        /\ colls' = r.colls
        /\ segs' = r.segs
        /\ dirs' = r.dirs
        /\ entries' = [n \in Names |-> IF n \in gone THEN {} ELSE entries[n]]
        /\ stranded' = (stranded \cup UNION {VectorIdsOf(<<DefaultDb, n>>, segs) : n \in gone})
                        \cap r.dirs
        /\ ret' = [NoRet EXCEPT !.op = "delete_collections", !.ok = TRUE,
                                !.asked = names, !.batch = r.batch, !.connOpen = leak,
                                !.results = r.results]
        /\ UNCHANGED <<files, df, dfName, shown>>

\* mutant: the pass also deletes the segment rows of the directories it removed
DeleteOrphanedPrunesIndex ==
    \E idxOk \in BOOLEAN, style \in ReprStyles :
      \E m \in UuidMappings(colls, segs, idxOk) :
        \E listed \in {ListCollectionsWithUuids(colls, style, m, dirs, files)} :
          \E r \in {DeleteOrphanedResult(listed, {}, dirs)} :
            /\ dirs' = r.dirs
            /\ segs' = {t \in segs : t.id \notin Range(r.deleted)}
            /\ stranded' = stranded \cap r.dirs
            /\ ret' = [NoRet EXCEPT !.op = "delete_orphaned_uuid_dirs",
                                    !.idxOk = idxOk, !.ok = TRUE,
                                    !.info = listed.info,
                                    !.orphans = r.orphans, !.deleted = r.deleted,
                                    !.count = r.count, !.failed = r.failed,
                                    !.healed = stranded \ r.dirs]
            /\ UNCHANGED <<colls, files, entries, df, dfName, shown>>

\* menu choice 6
DeleteOrphanedUuidDirs ==
    \E idxOk \in BOOLEAN, style \in ReprStyles :
      \E m \in UuidMappings(colls, segs, idxOk), leak \in ConnLeftOpen(idxOk) :
        \E listed \in {ListCollectionsWithUuids(colls, style, m, dirs, files)} :
         \E rmFail \in {{}} \cup {{d} : d \in Range(listed.orphans)} :
          \E r \in {DeleteOrphanedResult(listed, rmFail, dirs)} :
            /\ dirs' = r.dirs
            /\ stranded' = stranded \cap r.dirs
            /\ ret' = [NoRet EXCEPT !.op = "delete_orphaned_uuid_dirs",
                                    !.idxOk = idxOk, !.ok = TRUE, !.connOpen = leak,
                                    !.info = listed.info,
                                    !.orphans = r.orphans, !.deleted = r.deleted,
                                    !.count = r.count, !.failed = r.failed,
                                    !.healed = stranded \ r.dirs]
            /\ UNCHANGED <<colls, segs, files, entries, df, dfName, shown>>

\* ------------------------------------------- the store's other clients
\* a collection of the same persist directory created in another database
EnvCreateForeign ==
    \E name \in ForeignNames, i \in FreshIds(segs, dirs) :
      /\ <<ForeignDb, name>> \notin colls
      /\ LET st == StoreCreate(ForeignDb, name, i, colls, segs)
         IN  colls' = st.colls /\ segs' = st.segs
      /\ ret' = NoRet
      /\ UNCHANGED <<dirs, files, entries, df, dfName, stranded, shown>>

\* the store persists the HNSW index of a VECTOR segment: its directory appears
EnvPersist ==
    \E id \in LiveVectorIds(segs) \ dirs :
      /\ dirs' = dirs \cup {id}
      /\ ret' = NoRet
      /\ UNCHANGED <<colls, segs, files, entries, df, dfName, stranded, shown>>

\* ------------------- delete_orphaned_uuid_dirs beside another client
\* the pass has read the collection list, or the list and the index, and has
\* not returned yet
InFlight(r) == r.op \in {"pass_listed", "pass_mapped"}

\* the pass starts: collections = self.list_collections()
PassListCollections ==
    /\ ~InFlight(ret)
    /\ \E style \in ReprStyles :
         ret' = [NoRet EXCEPT !.op = "pass_listed",
                              !.asked = ListCollections(colls, style)]
    /\ UNCHANGED <<colls, segs, dirs, files, entries, df, dfName, stranded, shown>>

\* uuid_mapping = self._get_collection_uuid_mapping()
PassReadIndex ==
    /\ ret.op = "pass_listed"
    /\ \E idxOk \in BOOLEAN :
        \E m \in UuidMappings(colls, segs, idxOk), leak \in ConnLeftOpen(idxOk) :
          ret' = [ret EXCEPT !.op = "pass_mapped", !.idxOk = idxOk,
                             !.mapping = m, !.connOpen = leak]
    /\ UNCHANGED <<colls, segs, dirs, files, entries, df, dfName, stranded, shown>>

\* all_uuid_dirs is read, the listed collections' uuids are taken out, and the
\* directories left are removed; the pass returns
PassScanDelete ==
    /\ ret.op = "pass_mapped"
    /\ \E listed \in {CollectInfo(ret.asked, ret.mapping,
                                   GetAllUuidDirectories(dirs, files))} :
        \E rmFail \in {{}} \cup {{d} : d \in Range(listed.orphans)} :
         \E r \in {DeleteOrphanedResult(listed, rmFail, dirs)} :
           /\ dirs' = r.dirs
           /\ stranded' = stranded \cap r.dirs
           /\ ret' = [NoRet EXCEPT !.op = "delete_orphaned_uuid_dirs",
                                   !.idxOk = ret.idxOk, !.ok = TRUE,
                                   !.connOpen = ret.connOpen,
                                   !.info = listed.info,
                                   !.orphans = r.orphans, !.deleted = r.deleted,
                                   !.count = r.count, !.failed = r.failed,
                                   !.healed = stranded \ r.dirs]
    /\ UNCHANGED <<colls, segs, files, entries, df, dfName, shown>>

\* another client of the persist directory creates a collection while the
\* pass runs, and the store writes its VECTOR segment directory
ExternalCreate ==
    /\ InFlight(ret)
    /\ \E db \in Dbs, name \in Names, i \in FreshIds(segs, dirs) :
         /\ <<db, name>> \notin colls
         /\ LET st == StoreCreate(db, name, i, colls, segs)
            IN  colls' = st.colls /\ segs' = st.segs
         /\ dirs' = dirs \cup {VecId(i)}
    /\ UNCHANGED <<files, entries, df, dfName, stranded, shown, ret>>

\* ------------------------------------------ operations of the auditor
\* the collection view is (re)loaded
LoadCollection ==
    \E name \in AuditedNames :
      /\ df' = LoadCollectionIds(name, colls, entries)
      /\ dfName' = name
      /\ ret' = [NoRet EXCEPT !.op = "load_collection", !.name = name]
      /\ UNCHANGED <<colls, segs, dirs, files, entries, stranded, shown>>

\* the delete button, on the rows selected in the displayed frame
DeleteEntries ==
    \E selected_indices \in SUBSET (0..(MaxEntries - 1)) :
     \E fault \in (IF dfName \in StoreNames(colls) /\ selected_indices # {}
                       /\ Len(SelectedIds(selected_indices, df))
                            >= Cardinality(entries[dfName])
                    THEN ResetFaults ELSE {"none"}) :
     \E uuid_dir \in FetchOne(dfName, colls, segs), i \in FreshIds(segs, dirs),
        leak \in ConnLeftOpen(fault # "index") :
      \E r \in {DeleteEntriesResult(dfName, selected_indices, df, fault, uuid_dir, i,
                                    colls, segs, dirs, files, entries)} :
        /\ dfName \in Names
        /\ colls' = r.colls
        /\ segs' = r.segs
        /\ dirs' = r.dirs
        /\ entries' = r.entries
        /\ df' = IF r.reload THEN LoadCollectionIds(dfName, r.colls, r.entries) ELSE df
        /\ stranded' = IF r.metaDeleted
                       THEN (stranded \cup VectorIdsOf(<<DefaultDb, dfName>>, segs))
                            \cap r.dirs
                       ELSE stranded
        /\ ret' = [NoRet EXCEPT !.op = "delete_entries", !.name = dfName,
                                !.status = r.status, !.reset = r.reset,
                                !.threw = r.threw, !.metaDeleted = r.metaDeleted,
                                !.selected = r.selected, !.steps = r.steps,
                                !.uuid = r.uuid, !.idxOk = fault # "index",
                                !.connOpen = leak,
                                !.noSelection = (selected_indices = {}),
                                !.ok = r.status # StatusError]
        /\ UNCHANGED <<files, dfName, shown>>

\* the upload pipeline stores a chunk in a collection
EnvAddEntry ==
    \E name \in StoreNames(colls) \cap AuditedNames, e \in EntryIds :
      /\ e \notin entries[name]
      /\ entries' = [entries EXCEPT ![name] = @ \cup {e}]
      /\ ret' = NoRet
      /\ UNCHANGED <<colls, segs, dirs, files, df, dfName, stranded, shown>>

Next ==
    \/ ListWithUuids
    \/ CreateCollection
    \/ DeleteCollection
    \/ DeleteOrphanedUuidDirs
    \/ EnvCreateForeign
    \/ EnvPersist

Spec == Init /\ [][Next]_vars

\* the operator lists, works on the collections, then cleans up
RecheckNext ==
    \/ MenuList
    \/ CreateCollection
    \/ DeleteCollection
    \/ DeleteOrphanedUuidDirs
    \/ EnvPersist

RecheckSpec == Init /\ [][RecheckNext]_vars

\* menu choice 6 step by step, with another client creating collections
ConcurrentNext ==
    \/ (~InFlight(ret) /\ CreateCollection)
    \/ (~InFlight(ret) /\ EnvPersist)
    \/ PassListCollections
    \/ PassReadIndex
    \/ PassScanDelete
    \/ ExternalCreate

ConcurrentSpec == Init /\ [][ConcurrentNext]_vars

\* menu choice 4 over the collections the store and its other clients keep
BatchNext ==
    \/ CreateCollection
    \/ DeleteCollections
    \/ EnvCreateForeign
    \/ EnvPersist

BatchSpec == Init /\ [][BatchNext]_vars

AuditorNext ==
    \/ CreateCollection
    \/ EnvPersist
    \/ EnvAddEntry
    \/ LoadCollection
    \/ DeleteEntries

AuditorSpec == Init /\ [][AuditorNext]_vars

\* the two operations that delete a collection, side by side, on collections
\* nothing was uploaded to
DeletionNext ==
    \/ CreateCollection
    \/ EnvPersist
    \/ LoadCollection
    \/ DeleteEntries
    \/ DeleteCollection

DeletionSpec == Init /\ [][DeletionNext]_vars

\* ------------------------------------------------------------- claims
IsOrphanPass(r) == r.op = "delete_orphaned_uuid_dirs"
IsListing(r) == r.op = "list_collections_with_uuids"
IsDelete(r) == r.op = "delete_collection"

\* the VECTOR segment ids of the collection the store lists under name
LiveIdsOf(name, cs, sg) ==
    IF name \in StoreNames(cs) THEN VectorIdsOf(<<DefaultDb, name>>, sg) ELSE {}

\* orphans any list_collections_with_uuids can report in the given state
OrphansReportable(cs, sg, ds, fl) ==
    UNION {Range(ListCollectionsWithUuids(cs, st, m, ds, fl).orphans) :
             st \in ReprStyles,
             m \in UuidMappings(cs, sg, TRUE) \cup UuidMappings(cs, sg, FALSE)}

\* C1: no call of delete_orphaned_uuid_dirs removes the directory of a VECTOR
\* segment of a collection the store lists.
C1_NoLiveDeletion ==
    [][IsOrphanPass(ret') =>
         \A n \in StoreNames(colls) :
           \A id \in LiveIdsOf(n, colls, segs) \cap dirs : id \in dirs']_vars

\* C2: list_collections_with_uuids reports a candidate directory as an orphan
\* exactly when its name is not among the VECTOR segment ids the join query of
\* that call returned.
C2_Soundness ==
    [][IsListing(ret') =>
         LET returned == IF ret'.idxOk THEN {r[2] : r \in VectorRows(colls, segs)}
                         ELSE {}
         IN  \A D \in {d \in dirs : IsUuidLike(d)} :
               D \in Range(ret'.orphans) <=> D \notin returned]_vars

\* C3: a call of delete_orphaned_uuid_dirs that directly follows one which
\* removed its whole, non-empty orphan set deletes nothing and returns (0, []).
C3_Idempotence ==
    [][(/\ IsOrphanPass(ret) /\ ret.failed = {} /\ ret.deleted # <<>>
        /\ IsOrphanPass(ret'))
         => (ret'.count = 0 /\ ret'.deleted = <<>> /\ dirs' = dirs)]_vars

\* C4 as claimed: with one failing removal among N orphans the call reports the
\* other N-1 and the failing directory is named in the result.
C4_FailingNamedInResult ==
    [][(IsOrphanPass(ret') /\ Cardinality(ret'.failed) = 1) =>
         /\ ret'.count = Len(ret'.orphans) - 1
         /\ ret'.failed \subseteq Range(ret'.deleted)]_vars

\* C4 amended: with one failing removal among N orphans the call does not
\* raise, removes and reports exactly the other N-1 in order, and the failing
\* directory is left on disk and out of the result.
C4_BatchIsolation ==
    [][(IsOrphanPass(ret') /\ Cardinality(ret'.failed) = 1) =>
         /\ ~ret'.raised
         /\ ret'.count = Len(ret'.orphans) - 1
         /\ ret'.deleted = Filter(ret'.orphans, dirs \ ret'.failed)
         /\ dirs' = dirs \ Range(ret'.deleted)
         /\ ret'.failed \subseteq dirs'
         /\ ret'.failed \cap Range(ret'.deleted) = {}]_vars

C4_Witness ==
    /\ IsOrphanPass(ret)
    /\ Cardinality(ret.failed) = 1
    /\ Len(ret.orphans) >= 2
    /\ ret.count = Len(ret.orphans) - 1

C6_RmtreeFailureReturnsTrue ==
    [][(IsDelete(ret') /\ ret'.metaDeleted /\ ret'.rmRaised) => ret'.ok]_vars

\* C6 amended: when the metadata is deleted and rmtree raises, the exception is
\* caught and delete_collection returns false; the collection is gone from the
\* listing and the directory is still on disk.
C6_RmtreeFailureReturnsFalse ==
    [][(IsDelete(ret') /\ ret'.metaDeleted /\ ret'.rmRaised) =>
         /\ ~ret'.raised
         /\ ~ret'.ok
         /\ ret'.name \notin StoreNames(colls')
         /\ ret'.uuid \in dirs'
         /\ dirs' = dirs]_vars

C6_Witness ==
    /\ IsDelete(ret)
    /\ ret.metaDeleted
    /\ ret.rmRaised
    /\ ret.uuid \in dirs

\* C7: every directory left behind by a metadata deletion is classified as an
\* orphan by the next delete_orphaned_uuid_dirs, and removed by it unless its
\* own removal fails.
C7_StrandedSwept ==
    [][IsOrphanPass(ret') =>
         \A S \in stranded :
           /\ S \in Range(ret'.orphans)
           /\ S \notin ret'.failed => (S \notin dirs' /\ S \in Range(ret'.deleted))]_vars

C7_Witness ==
    /\ IsOrphanPass(ret)
    /\ ret.healed # {}
    /\ ret.healed \subseteq Range(ret.deleted)
    /\ ret.healed \cap dirs = {}

\* a delete_entries that selected at least one row of the frame
IsEntriesDelete(r) == r.op = "delete_entries" /\ r.selected # <<>>

\* C8: a delete_entries that takes the reset path on a collection whose entry
\* count equals the number of selected ids ends with the collection listed under
\* the same name and holding no entry.
C8_ResetLeavesEmptyCollection ==
    [][(/\ IsEntriesDelete(ret') /\ ret'.reset
        /\ Len(ret'.selected) = Cardinality(entries[ret'.name]))
         => (/\ ret'.name \in StoreNames(colls')
             /\ entries'[ret'.name] = {})]_vars

\* C9: when a step of the reset sequence raises, the collection ends either
\* reset (listed and empty) or as it was less the selected entries; it is
\* never left absent.
C9_ResetFailureLeavesCollection ==
    [][(IsEntriesDelete(ret') /\ ret'.reset /\ ret'.threw)
         => (/\ ret'.name \in StoreNames(colls')
             /\ \/ entries'[ret'.name] = {}
                \/ entries'[ret'.name] = entries[ret'.name] \ Range(ret'.selected))]_vars

\* C10: once delete_entries has entered the reset path it returns the status
\* "completely reset" or the status "standard method", never another one.
C10_ResetStatusIsResetOrFallback ==
    [][(IsEntriesDelete(ret') /\ ret'.reset)
         => ret'.status \in {StatusReset, StatusStandard}]_vars

\* C11: when the read of the index fails, the mapping is empty and nothing is
\* raised: list_collections_with_uuids and delete_orphaned_uuid_dirs complete,
\* every listed collection gets the uuid "Unknown" and every candidate
\* directory is reported.
C11_IndexFailureDegrades ==
    [][((IsListing(ret') \/ IsOrphanPass(ret')) /\ ~ret'.idxOk) =>
         /\ ~ret'.raised
         /\ ret'.ok
         /\ Len(ret'.info) = Cardinality(StoreNames(colls))
         /\ \A k \in 1..Len(ret'.info) : ret'.info[k].uuid = Unknown
         /\ ret'.orphans = GetAllUuidDirectories(dirs, files)]_vars

C11_Witness ==
    /\ IsOrphanPass(ret)
    /\ ~ret.idxOk
    /\ ret.ok
    /\ ret.info # <<>>
    /\ LiveVectorIds(segs) # {}

\* the entries of the root that are directories, with a name of at least 32
\* characters that holds a hyphen
Candidates(ds) == {x \in ds : Len(Text[x]) >= 32 /\ \E i \in 1..Len(Text[x]) : Text[x][i] = "-"}

\* C12: the candidates of a listing or an orphan pass are exactly the
\* directories of the root whose name has 32 characters or more and a hyphen:
\* each is reported as an orphan or is the uuid of a listed collection, and no
\* plain file and no other directory is reported or removed.
C12_CandidatesAreUuidLikeDirs ==
    [][(IsListing(ret') \/ IsOrphanPass(ret')) =>
         /\ Range(ret'.orphans) \subseteq Candidates(dirs)
         /\ Candidates(dirs) \ Range(ret'.orphans)
              \subseteq {ret'.info[k].uuid : k \in 1..Len(ret'.info)}
         /\ dirs \ dirs' \subseteq Candidates(dirs)
         /\ files' = files]_vars

C12_Witness ==
    /\ IsOrphanPass(ret)
    /\ ret.deleted # <<>>
    /\ UuidFile \in files
    /\ {LongName, ShortName} \subseteq dirs
    /\ Candidates(dirs) # {}

\* C13: when no removal fails, delete_orphaned_uuid_dirs removes exactly the
\* candidate directories that are not the uuid of an entry of the collection
\* info it built, removes nothing else, and returns the size of that set.
C13_RemovesExactlyOrphans ==
    [][(IsOrphanPass(ret') /\ ret'.failed = {}) =>
         LET live == {ret'.info[k].uuid : k \in 1..Len(ret'.info)}
             orphans == Candidates(dirs) \ live
         IN  /\ dirs' = dirs \ orphans
             /\ Range(ret'.deleted) = orphans
             /\ ret'.count = Cardinality(orphans)
             /\ UNCHANGED <<colls, segs, files, entries>>]_vars

C13_Witness ==
    /\ IsOrphanPass(ret)
    /\ ret.failed = {}
    /\ ret.count >= 1
    /\ \E k \in 1..Len(ret.info) : ret.info[k].uuid \in dirs

IsBatch(r) == r.op = "delete_collections"

\* C14: in a batch delete_collections(names) every name is attempted, whatever
\* failed before it, and each listed collection with a call in the batch whose
\* store delete does not fail is gone from the listing afterwards.
C14_BatchAttemptsEveryName ==
    [][IsBatch(ret') =>
         /\ ~ret'.raised
         /\ Len(ret'.batch) = Len(ret'.asked)
         /\ \A k \in 1..Len(ret'.asked) :
              /\ ret'.batch[k].name = ret'.asked[k]
              /\ ret'.asked[k] \in DOMAIN ret'.results
              /\ (ret'.asked[k] \in StoreNames(colls) /\ ret'.batch[k].fault # "api")
                   => ret'.asked[k] \notin StoreNames(colls')]_vars

C14_Witness ==
    /\ IsBatch(ret)
    /\ Len(ret.batch) = 2
    /\ ret.batch[1].fault = "api"
    /\ ~ret.batch[1].ok
    /\ ret.batch[1].name \in StoreNames(colls)
    /\ ret.batch[2].fault = "none"
    /\ ret.batch[2].ok
    /\ ret.batch[2].metaDeleted

\* how many times a step occurs among the steps of an operation
CountOf(steps, x) == Cardinality({i \in 1..Len(steps) : steps[i] = x})

\* C15: delete_collection on a name the store does not list returns false,
\* calls the store's delete once, and leaves the collections, the index and
\* every entry of the root as they were.
C15_AbsentNameReportedOnce ==
    [][(IsDelete(ret') /\ ret'.name \notin StoreNames(colls)) =>
         /\ ~ret'.raised
         /\ ~ret'.ok
         /\ CountOf(ret'.steps, "metadata_delete") = 1
         /\ UNCHANGED <<colls, segs, dirs, files, entries>>]_vars

C15_Witness ==
    /\ IsDelete(ret)
    /\ ~ret.ok
    /\ ~ret.metaDeleted
    /\ ret.name \notin StoreNames(colls)
    /\ ret.uuid \in dirs
    /\ CountOf(ret.steps, "metadata_delete") = 1

\* directories every list_collections_with_uuids reports as orphans in the
\* given state, whatever the read of the index yields
OrphansCertain(cs, sg, ds, fl) ==
    {d \in ds : \A st \in ReprStyles :
                 \A m \in UuidMappings(cs, sg, TRUE) \cup UuidMappings(cs, sg, FALSE) :
                   d \in Range(ListCollectionsWithUuids(cs, st, m, ds, fl).orphans)}

\* C17: when rmtree raises after the metadata deletion of delete_collection,
\* nothing is rolled back: the collection and its index rows stay deleted, and
\* the directory stays on disk, where every listing reports it as an orphan.
C17_NoRollback ==
    [][(IsDelete(ret') /\ ret'.metaDeleted /\ ret'.rmRaised) =>
         /\ ret'.name \in StoreNames(colls)
         /\ ret'.name \notin StoreNames(colls')
         /\ \A t \in segs' : t.collection # <<DefaultDb, ret'.name>>
         /\ ret'.uuid \in dirs'
         /\ ret'.uuid \in OrphansCertain(colls', segs', dirs', files')]_vars

C17_Witness ==
    /\ IsDelete(ret)
    /\ ret.rmRaised
    /\ ret.name \notin StoreNames(colls)
    /\ ret.uuid \in stranded
    /\ ret.uuid \in OrphansCertain(colls, segs, dirs, files)

\* C18: delete_collection on a listed collection, when the index gave no uuid
\* for it or the uuid names nothing on disk, deletes the metadata, calls no
\* rmtree, leaves the root as it was and returns true.
C18_NoDirectoryNoRmtree ==
    [][(/\ IsDelete(ret') /\ ret'.metaDeleted
        /\ (ret'.uuid = None \/ ret'.uuid \notin dirs \cup files)) =>
         /\ ret'.ok
         /\ ~ret'.raised
         /\ ret'.name \notin StoreNames(colls')
         /\ CountOf(ret'.steps, "rmtree") = 0
         /\ UNCHANGED <<dirs, files>>]_vars

C18_Witness ==
    /\ IsDelete(ret)
    /\ ret.ok
    /\ ret.metaDeleted
    /\ ret.idxOk
    /\ ret.uuid # None
    /\ ret.uuid \notin dirs
    /\ CountOf(ret.steps, "rmtree") = 0

\* a delete_entries that entered the reset sequence
IsReset(r) == r.op = "delete_entries" /\ r.reset

\* C16: delete_collection and the reset sequence of delete_entries read the
\* VECTOR segment id from the index first: the read comes before the store's
\* delete, never after it, and the id is the one the index held before.
C16_LookupBeforeMetadataDelete ==
    [][(IsDelete(ret') \/ IsReset(ret')) =>
         /\ ret'.steps[1] = "index_read"
         /\ CountOf(ret'.steps, "index_read") = 1
         /\ \A i, j \in 1..Len(ret'.steps) :
              (ret'.steps[i] = "index_read" /\ ret'.steps[j] = "metadata_delete") => i < j
         /\ ret'.idxOk => ret'.uuid \in FetchOne(ret'.name, colls, segs)]_vars

C16_Witness ==
    /\ IsReset(ret)
    /\ ret.metaDeleted
    /\ ret.steps[1] = "index_read"
    /\ ret.steps[2] = "metadata_delete"
    /\ ret.uuid # None
    /\ ret.uuid \notin dirs
    /\ ret.uuid \notin FetchOne(ret.name, colls, segs)

\* C19: when an operation has returned, no connection to the index that it
\* opened is still open.
C19_NoOpenConnection == ~ret.connOpen

\* the orphan lists list_collections_with_uuids can return in the given state
FreshOrphanLists(cs, sg, ds, fl, idxOk) ==
    {ListCollectionsWithUuids(cs, st, m, ds, fl).orphans :
       st \in ReprStyles, m \in UuidMappings(cs, sg, idxOk)}

C21_IndexOnlyThroughStore ==
    [][/\ (IsListing(ret') \/ IsOrphanPass(ret')) => UNCHANGED <<colls, segs>>
       /\ IsDelete(ret') =>
            \/ UNCHANGED <<colls, segs>>
            \/ /\ CountOf(ret'.steps, "metadata_delete") = 1
               /\ colls' = StoreDelete(ret'.name, colls, segs).colls
               /\ segs' = StoreDelete(ret'.name, colls, segs).segs
       /\ ret'.op = "create_collection" =>
            \/ UNCHANGED <<colls, segs>>
            \/ \E i \in 1..MaxSegs :
                 /\ colls' = StoreCreate(DefaultDb, ret'.name, i, colls, segs).colls
                 /\ segs' = StoreCreate(DefaultDb, ret'.name, i, colls, segs).segs]_vars

C21_Witness ==
    /\ IsOrphanPass(ret)
    /\ ret.deleted # <<>>
    /\ \E t \in segs : t.id \in Range(ret.deleted)

C23_UnreadableIndexSparesLive ==
    [][(IsOrphanPass(ret') /\ ~ret'.idxOk) =>
         \A n \in StoreNames(colls) :
           LiveIdsOf(n, colls, segs) \cap dirs \subseteq dirs']_vars

\* C24: delete_entries removes no entry whose id is not among the selected
\* ids, whatever the collection holds and whatever frame is displayed.
C24_OnlySelectedRemoved ==
    [][ret'.op = "delete_entries" =>
         entries[ret'.name] \ entries'[ret'.name] \subseteq Range(ret'.selected)]_vars

\* C26: when nothing raises inside a batch, delete_collections returns true for
\* a name exactly when the call deleted the collection of that name.
C26_ResultsTellDeleted ==
    [][(IsBatch(ret') /\ \A k \in 1..Len(ret'.batch) : ret'.batch[k].fault = "none") =>
         \A n \in DOMAIN ret'.results :
           ret'.results[n] <=> (n \in StoreNames(colls) /\ n \notin StoreNames(colls'))]_vars

\* C27: a delete_entries that selected fewer entries than the listed collection
\* holds removes exactly the selected ids by the per-entry delete; the
\* collection and its index rows are not deleted or recreated and the root is
\* left as it was.
C27_SubsetKeepsCollection ==
    [][(/\ IsEntriesDelete(ret') /\ ret'.name \in StoreNames(colls)
        /\ Len(ret'.selected) < Cardinality(entries[ret'.name])) =>
         /\ entries' = [entries EXCEPT ![ret'.name] = @ \ Range(ret'.selected)]
         /\ ~ret'.reset
         /\ ret'.steps = <<"entries_delete">>
         /\ ret'.status = StatusDeleted
         /\ UNCHANGED <<colls, segs, dirs, files>>]_vars

C27_Witness ==
    /\ IsEntriesDelete(ret)
    /\ ~ret.reset
    /\ ret.status = StatusDeleted
    /\ entries[ret.name] # {}
    /\ Range(ret.selected) \cap entries[ret.name] = {}
    /\ VectorIdsOf(<<DefaultDb, ret.name>>, segs) \cap dirs # {}

\* C30: delete_entries with an empty selection returns the frame as it was
\* with the status "No entries selected", and calls nothing: no entry, no
\* collection, no index row and no entry of the root changes.
C30_EmptySelectionNoop ==
    [][(ret'.op = "delete_entries" /\ ret'.noSelection) =>
         /\ ret'.status = StatusNone
         /\ ret'.steps = <<>>
         /\ ~ret'.reset
         /\ UNCHANGED <<df, colls, segs, dirs, files, entries>>]_vars

C30_Witness ==
    /\ ret.op = "delete_entries"
    /\ ret.noSelection
    /\ ret.status = StatusNone
    /\ df # <<>>
    /\ entries[ret.name] # {}

\* C28: the result (count, deleted) of delete_orphaned_uuid_dirs has count equal
\* to the length of deleted and no name twice in deleted; every name in deleted
\* was a candidate directory reported as an orphan by the call and is gone from
\* the root when it returns, and every orphan not in deleted is still there.
C28_ResultMatchesRoot ==
    [][IsOrphanPass(ret') =>
         /\ ret'.count = Len(ret'.deleted)
         /\ Cardinality(Range(ret'.deleted)) = Len(ret'.deleted)
         /\ Range(ret'.deleted) \subseteq Range(ret'.orphans) \cap Candidates(dirs)
         /\ Range(ret'.deleted) \cap dirs' = {}
         /\ Range(ret'.orphans) \ Range(ret'.deleted) \subseteq dirs'
         /\ dirs' = dirs \ Range(ret'.deleted)]_vars

C28_Witness ==
    /\ IsOrphanPass(ret)
    /\ ret.deleted # <<>>
    /\ Range(ret.deleted) \cap dirs = {}
    /\ Range(ret.orphans) \ Range(ret.deleted) # {}
    /\ Range(ret.orphans) \ Range(ret.deleted) \subseteq dirs

\* C29: list_collections_with_uuids is read-only: the collections, the rows of
\* the index, the entries and every directory and file of the root are after
\* the call what they were before it.
C29_ListingReadOnly ==
    [][IsListing(ret') => UNCHANGED <<colls, segs, dirs, files, entries, stranded>>]_vars

C29_Witness ==
    /\ IsListing(ret)
    /\ ret.info # <<>>
    /\ ret.orphans # <<>>
    /\ Range(ret.orphans) \subseteq dirs

\* C25: with another client creating collections while the pass runs and the
\* pass reading the index, no collection that was in the collection list the
\* pass read loses the directory of its VECTOR segment.
C25_ListedBeforeKeepDirectory ==
    [][(ret.op = "pass_mapped" /\ IsOrphanPass(ret') /\ ret.idxOk) =>
         \A k \in 1..Len(ret.asked) :
           LiveIdsOf(CleanName(ret.asked[k]), colls, segs) \cap dirs \subseteq dirs']_vars

====
